---------------------------- MODULE Spec2Model ----------------------------
(***************************************************************************)
(* State-machine model of the C autograder pipeline of                     *)
(* src/grader_langgraph.py: run_grader_pipeline and the stages it calls    *)
(* (compile_agent, static_agent, test_agent, performance_agent,            *)
(* orchestrate).                                                           *)
(*                                                                         *)
(* Conventions                                                             *)
(*  - a Python Optional is None == <<>> or Some(x) == <<x>>;               *)
(*  - a Python str that the code inspects character by character (a test   *)
(*    line, a program's stdout) is a sequence of one-character strings;    *)
(*    a message that is only searched for words (stderr) is a sequence of  *)
(*    words; report text is a sequence of lines, each a sequence of        *)
(*    tokens;                                                              *)
(*  - a float score is kept in hundredths of a point (95.25 is 9525), the  *)
(*    two-decimal round() of the code is exact decimal round-half-even;    *)
(*  - times are in milliseconds, an average is the pair <<sum, count>>.    *)
(***************************************************************************)
EXTENDS Integers, Sequences, FiniteSets, TLC

VARIABLES
    pc,          \* position of run_grader_pipeline
    code_text,   \* argument code_text (None models a non-str argument)
    tests_arg,   \* argument tests
    state,       \* the GraderState object
    error,       \* the "error" key of the returned dict, None when absent
    disk,        \* paths that exist on disk
    scratch,     \* the directory mkdtemp returned in this run (history)
    results,     \* test_agent local: results
    passed,      \* test_agent local: passed
    idx,         \* test_agent local: position of the for loop (1-based)
    execs,       \* history: what each spawned run of the binary did
    reporter,    \* the llm_reporter argument: absent, or what the callable
                 \* does when called; fixed when the run ends
    pre,         \* history: stage outcomes and score as they were when
                 \* orchestrate had computed the score, before the reporter
    runs,        \* the compile stages of the grading runs one server hosts
                 \* at the same time: position, scratch directory and the
                 \* paths written, of each
    llm          \* one call of call_gemini (src/llm_agents.py): its
                 \* arguments, position and locals, and the calls it made

vars == <<pc, code_text, tests_arg, state, error, disk, scratch,
          results, passed, idx, execs, reporter, pre, runs, llm>>

-----------------------------------------------------------------------------
(* Bounds *)

MaxTests == 2      \* longest test list of Spec
MaxTotal == 6      \* longest test list of ScoreSpec
MaxRuns == 2       \* grading runs hosted at the same time, in ConcSpec
MaxTokens == 5     \* longest test line of LineSpec, in tokens
MaxCandidates == 2 \* most candidates of a model response, in GeminiSpec

-----------------------------------------------------------------------------
(* Optionals *)

None == <<>>
Some(x) == <<x>>
IsNone(o) == o = <<>>
IsSome(o) == o # <<>>
Val(o) == o[1]

-----------------------------------------------------------------------------
(* Python str operations on character sequences *)

Whitespace == {" ", "\n"}

RECURSIVE lstrip(_)
lstrip(s) ==
    IF s # <<>> /\ Head(s) \in Whitespace THEN lstrip(Tail(s)) ELSE s

RECURSIVE rstrip(_)
rstrip(s) ==
    IF s # <<>> /\ s[Len(s)] \in Whitespace
    THEN rstrip(SubSeq(s, 1, Len(s) - 1))
    ELSE s

\* str.strip()
strip(s) == rstrip(lstrip(s))

\* positions at which sub occurs in s
Occurrences(sub, s) ==
    { i \in 1..(Len(s) - Len(sub) + 1) : SubSeq(s, i, i + Len(sub) - 1) = sub }

\* sub in s
Contains(sub, s) == Occurrences(sub, s) # {}

Min(S) == CHOOSE x \in S : \A y \in S : x <= y

\* s.split(sep, 1) for a separator that occurs in s
split1(s, sep) ==
    LET i == Min(Occurrences(sep, s))
    IN  << SubSeq(s, 1, i - 1), SubSeq(s, i + Len(sep), Len(s)) >>

-----------------------------------------------------------------------------
(* Inputs *)

\* Source texts: a sequence of lines, each a sequence of tokens.
CleanCode  == << <<"int", "main(", ")", "{">>, <<"return", "0;", "}">> >>
UnsafeCode == << <<"void", "f(", ")", "{", "gets(", "b);", "system(", "c);", "}">> >>
Codes == {CleanCode, UnsafeCode}

\* Test lines, as the UI hands them over (app.py: splitlines()).
Line_a_b   == <<"a", ":", ":", "b">>                  \* "a::b"
Line_a     == <<"a">>                                 \* "a"
Line_arrow == <<"a", "-", ">", "b">>                  \* "a->b"
Line_a_    == <<"a", ":", ":">>                       \* "a::"
Line_blank == <<>>                                    \* ""
TestLines == {Line_a_b, Line_a, Line_arrow, Line_a_, Line_blank}

RECURSIVE SeqsUpTo(_, _)
SeqsUpTo(S, n) ==
    IF n = 0 THEN {<<>>}
    ELSE LET shorter == SeqsUpTo(S, n - 1)
         IN  shorter \cup { Append(q, x) : q \in shorter, x \in S }

TestLists == SeqsUpTo(TestLines, MaxTests)

-----------------------------------------------------------------------------
(* The file system and the processes the pipeline spawns *)

TmpNames == {"grader_compile_0"}

src_path(tmpdir) == Append(tmpdir, "submission.c")
bin_path(tmpdir) == Append(tmpdir, "submission_bin")

\* What can happen inside compile_c_code once mkdtemp has returned.
CompileEvents ==
    {"write_fails", "gcc_missing", "gcc_timeout", "gcc_error",
     "gcc_ok_no_binary", "gcc_ok"}

GccDiagnostics == <<"error:", "expected", "';'">>

\* What a spawned run of the submission_bin can do: exit within the
\* timeout (with what it printed, its exit code and the time it took, in
\* ms), run into the timeout, or fail to start.
Exited(out, rc) == [kind |-> "exit", stdout |-> out, returncode |-> rc, time |-> 100]
ExecEvents ==
    { Exited(<<"b", "\n">>, 0), Exited(<<"x">>, 0), Exited(<<>>, 0), Exited(<<"b">>, 1),
      [kind |-> "timeout"], [kind |-> "exception"] }

SpawnErrorText == <<"Exec", "format", "error">>

\* f"{timeout_seconds}s." for the timeouts the pipeline uses
CompileTimeoutSeconds == 12
TestTimeoutSeconds == 2
SecondsText(n) ==
    CASE n = CompileTimeoutSeconds -> "12s."
      [] n = TestTimeoutSeconds -> "2s."
      [] OTHER -> "Ns."

\* a mkdtemp that hands out a directory whether or not it exists already
mkdtemp_takes_existing(tmpdir, d) == TRUE

\* tempfile.mkdtemp(prefix="grader_compile_") returns tmpdir: it has made
\* the directory itself, with a name that was not on disk (a name that is
\* taken makes it try the next one)
mkdtemp_creates(tmpdir, d) == tmpdir \notin d

-----------------------------------------------------------------------------
(* compile_c_code *)

compile_default ==
    [status |-> "error", binary_path |-> None, stdout |-> <<>>,
     stderr |-> <<>>, returncode |-> None]

\* the files compile_c_code leaves on disk, by what happened
compile_c_code_disk(tmpdir, ev, d) ==
    d \cup {tmpdir}
      \cup (IF ev = "write_fails" THEN {} ELSE {src_path(tmpdir)})
      \cup (IF ev = "gcc_ok" THEN {bin_path(tmpdir)} ELSE {})

\* the dict compile_c_code returns
compile_c_code(tmpdir, ev, timeout_seconds, d) ==
    CASE ev \in {"write_fails", "gcc_missing"} ->
            [compile_default EXCEPT !.stderr = <<"str(e)">>]
      [] ev = "gcc_timeout" ->
            [compile_default EXCEPT
                !.stderr = <<"Compilation", "timed", "out", "after", SecondsText(timeout_seconds)>>,
                !.returncode = Some(-1)]
      [] ev = "gcc_error" ->
            [compile_default EXCEPT
                !.stderr = GccDiagnostics, !.returncode = Some(1)]
      [] ev \in {"gcc_ok_no_binary", "gcc_ok"} ->
            IF bin_path(tmpdir) \in compile_c_code_disk(tmpdir, ev, d)
            THEN [compile_default EXCEPT
                    !.status = "success",
                    !.binary_path = Some(bin_path(tmpdir)),
                    !.returncode = Some(0)]
            ELSE [compile_default EXCEPT !.returncode = Some(0)]

-----------------------------------------------------------------------------
(* run_binary_with_input *)

exec_default ==
    [stdout |-> <<>>, stderr |-> <<>>, returncode |-> None, time |-> None]

TimeoutSecondsMs(timeout_seconds) == timeout_seconds * 1000

run_binary_with_input(path, input_data, timeout_seconds, ev, d) ==
    IF IsNone(path) \/ Val(path) \notin d
    THEN [exec_default EXCEPT
            !.stderr = <<"Binary", "not", "found", "or", "not", "executable.">>]
    ELSE CASE ev.kind = "exit" ->
                [stdout |-> ev.stdout, stderr |-> <<>>,
                 returncode |-> Some(ev.returncode), time |-> Some(ev.time)]
           [] ev.kind = "timeout" ->
                [exec_default EXCEPT
                    !.stderr = <<"Execution", "timed", "out", "after", SecondsText(timeout_seconds)>>,
                    !.returncode = Some(-1),
                    !.time = Some(TimeoutSecondsMs(timeout_seconds))]
           [] ev.kind = "exception" ->
                [exec_default EXCEPT
                    !.stderr = SpawnErrorText,
                    !.returncode = Some(-1)]

-----------------------------------------------------------------------------
(* static_agent *)

\* "tok" in code, for the call prefixes the checks look for
code_has(code, tok) == \E i \in DOMAIN code : \E j \in DOMAIN code[i] : code[i][j] = tok

static_agent(code) ==
    LET i1 == IF code_has(code, "system(") THEN <<"system">> ELSE <<>>
        i2 == IF code_has(code, "gets(") THEN <<"gets">> ELSE <<>>
        i3 == IF ~code_has(code, "main(") THEN <<"no main">> ELSE <<>>
    IN  [issues |-> i1 \o i2 \o i3, lines |-> Len(code)]

-----------------------------------------------------------------------------
(* test_agent *)

DColon == <<":", ":">>
Arrow  == <<"-", ">">>

\* a test_agent that skips only when there is no compile result at all
test_skips_unless_compiled_at_all(compile_info) == IsNone(compile_info)

\* the early return: no binary to run
test_skips(compile_info) ==
    \/ IsNone(compile_info)
    \/ Val(compile_info).status # "success"
    \/ IsNone(Val(compile_info).binary_path)

test_skipped ==
    [status |-> "skipped", results |-> <<>>, passed |-> None, total |-> None,
     score |-> None]

Max(S) == CHOOSE x \in S : \A y \in S : x >= y

\* a split at the last "::" of the line instead of the first
test_parts_split_at_last(t) ==
    LET cut(sep) == LET i == Max(Occurrences(sep, t))
                    IN  << SubSeq(t, 1, i - 1), SubSeq(t, i + Len(sep), Len(t)) >>
        parts == IF Contains(DColon, t) THEN cut(DColon)
                 ELSE IF Contains(Arrow, t) THEN split1(t, Arrow)
                 ELSE <<t, <<>>>>
    IN  [input_str |-> strip(parts[1]), expected_str |-> strip(parts[2])]

\* a split that knows "::" only
test_parts_double_colon_only(t) ==
    LET parts == IF Contains(DColon, t) THEN split1(t, DColon)
                 ELSE <<t, <<>>>>
    IN  [input_str |-> strip(parts[1]), expected_str |-> strip(parts[2])]

\* input_str and expected_str of one test line
test_parts(t) ==
    LET parts == IF Contains(DColon, t) THEN split1(t, DColon)
                 ELSE IF Contains(Arrow, t) THEN split1(t, Arrow)
                 ELSE <<t, <<>>>>
    IN  [input_str |-> strip(parts[1]), expected_str |-> strip(parts[2])]

\* an outcome that compares the output as printed, not stripped
test_outcome_untrimmed(t, exec_res) ==
    LET p   == test_parts(t)
        out == strip(exec_res.stdout)
    IN  [input |-> p.input_str, expected |-> p.expected_str, output |-> out,
         pass |-> IF p.expected_str = <<>> THEN None
                  ELSE Some(exec_res.stdout = p.expected_str),
         meta |-> exec_res]

\* the outcome dict of one test, from its line and the run's result;
\* "pass" is None, Some(TRUE) or Some(FALSE)
test_outcome(t, exec_res) ==
    LET p   == test_parts(t)
        out == strip(exec_res.stdout)
    IN  [input |-> p.input_str, expected |-> p.expected_str, output |-> out,
         pass |-> IF p.expected_str = <<>> THEN None
                  ELSE Some(out = p.expected_str),
         meta |-> exec_res]

\* does this outcome add one to passed
counts_passed(outcome) == outcome.pass = Some(TRUE)

\* round(n/d) to an integer, ties to even, for n >= 0, d > 0
round_half_even(n, d) ==
    LET q == n \div d
        r == n % d
    IN  IF 2 * r < d THEN q
        ELSE IF 2 * r > d THEN q + 1
        ELSE IF q % 2 = 0 THEN q ELSE q + 1

\* a score that is 0.0 for an empty test list
test_score_zero_without_tests(p, total) ==
    IF total > 0 THEN Some(round_half_even(p * 10000, total)) ELSE Some(0)

\* score: round((passed / total) * 100.0, 2), in hundredths; None without tests
test_score(p, total) ==
    IF total > 0 THEN Some(round_half_even(p * 10000, total)) ELSE None

test_done(res, p, total) ==
    [status |-> "done", results |-> res, passed |-> Some(p),
     total |-> Some(total), score |-> test_score(p, total)]

-----------------------------------------------------------------------------
(* performance_agent *)

RECURSIVE SumSeq(_)
SumSeq(q) == IF q = <<>> THEN 0 ELSE Head(q) + SumSeq(Tail(q))

\* the times list: every result whose meta has a time
perf_times(res) ==
    LET withTime == SelectSeq(res, LAMBDA r : IsSome(r.meta.time))
    IN  [i \in DOMAIN withTime |-> Val(withTime[i].meta.time)]

perf_timed_out(res) ==
    \E i \in DOMAIN res :
        /\ res[i].meta.returncode = Some(-1)
        /\ Contains(<<"timed", "out">>, res[i].meta.stderr)

performance_agent(test_info) ==
    LET res   == IF IsNone(test_info) THEN <<>> ELSE Val(test_info).results
        times == perf_times(res)
    IN  [average_time |-> IF times # <<>> THEN Some(<<SumSeq(times), Len(times)>>)
                          ELSE None,
         any_timeouts |-> perf_timed_out(res)]

-----------------------------------------------------------------------------
(* orchestrate *)

\* the compile term entered as 100 points, its weight of 0.10 left out
computed_score_unweighted_compile(compile_info, test_info, perf_info) ==
    LET compile_ok == IF IsSome(compile_info) /\ Val(compile_info).status = "success"
                      THEN 1 ELSE 0
        score      == IF IsNone(test_info) THEN None ELSE Val(test_info).score
        timeouts   == IF IsNone(perf_info) THEN FALSE ELSE Val(perf_info).any_timeouts
        perf_bonus == IF ~timeouts THEN 500 ELSE 0
    IN  IF IsSome(score)
        THEN round_half_even(85 * Val(score)
                             + 100 * (IF compile_ok = 1 THEN 10000 ELSE 0)
                             + 5 * perf_bonus, 100)
        ELSE IF compile_ok = 1 THEN 5000 ELSE 0

\* the fallback of 50 given whether or not the code compiled
computed_score_fallback_always_50(compile_info, test_info, perf_info) ==
    LET compile_ok == IF IsSome(compile_info) /\ Val(compile_info).status = "success"
                      THEN 1 ELSE 0
        score      == IF IsNone(test_info) THEN None ELSE Val(test_info).score
        timeouts   == IF IsNone(perf_info) THEN FALSE ELSE Val(perf_info).any_timeouts
        perf_bonus == IF ~timeouts THEN 500 ELSE 0
    IN  IF IsSome(score)
        THEN round_half_even(85 * Val(score)
                             + 10 * (IF compile_ok = 1 THEN 10000 ELSE 0)
                             + 5 * perf_bonus, 100)
        ELSE 5000

\* the perf bonus given whether or not a run timed out
computed_score_bonus_always(compile_info, test_info, perf_info) ==
    LET compile_ok == IF IsSome(compile_info) /\ Val(compile_info).status = "success"
                      THEN 1 ELSE 0
        score      == IF IsNone(test_info) THEN None ELSE Val(test_info).score
    IN  IF IsSome(score)
        THEN round_half_even(85 * Val(score)
                             + 10 * (IF compile_ok = 1 THEN 10000 ELSE 0)
                             + 5 * 500, 100)
        ELSE IF compile_ok = 1 THEN 5000 ELSE 0

\* computed_score, in hundredths of a point
computed_score(compile_info, test_info, perf_info) ==
    LET compile_ok == IF IsSome(compile_info) /\ Val(compile_info).status = "success"
                      THEN 1 ELSE 0
        score      == IF IsNone(test_info) THEN None ELSE Val(test_info).score
        timeouts   == IF IsNone(perf_info) THEN FALSE ELSE Val(perf_info).any_timeouts
        perf_bonus == IF ~timeouts THEN 500 ELSE 0
    IN  IF IsSome(score)
        THEN round_half_even(85 * Val(score)
                             + 10 * (IF compile_ok = 1 THEN 10000 ELSE 0)
                             + 5 * perf_bonus, 100)
        ELSE IF compile_ok = 1 THEN 5000 ELSE 0

DigitChars == <<"0", "1", "2", "3", "4", "5", "6", "7", "8", "9">>

RECURSIVE int_str(_)
int_str(n) ==
    IF n < 10 THEN <<DigitChars[n + 1]>>
    ELSE Append(int_str(n \div 10), DigitChars[(n % 10) + 1])

\* str() of a float that has at most two decimals, from its hundredths
float_str(h) ==
    LET f == h % 100
    IN  int_str(h \div 100) \o <<".">> \o
        (IF f % 10 = 0 THEN <<DigitChars[(f \div 10) + 1]>>
         ELSE <<DigitChars[(f \div 10) + 1], DigitChars[(f % 10) + 1]>>)

\* str() of a stage's dict, as far as the report is read here
stage_str(info) == IF IsNone(info) THEN <<"None">> ELSE <<"{...}">>

\* the fallback report: the joined lines
fallback_report(score, st) ==
    << <<"## Automated Grading Report (fallback)">>,
       <<"Final score: ">> \o float_str(score),
       <<>>,
       <<"### Compilation">>,
       stage_str(st.compile),
       <<>>,
       <<"### Static Analysis">>,
       stage_str(st.static),
       <<>>,
       <<"### Tests">>,
       stage_str(st.test),
       <<>>,
       <<"### Performance">>,
       stage_str(st.perf) >>

\* What llm_reporter is, or does when called with the context.
ReporterBehaviours == {"absent", "raises", "returns_empty", "returns_text"}
LlmText == << <<"Your", "program", "was", "graded.">> >>

\* report_text after the call of llm_reporter, before the fallback
reporter_text(beh) ==
    CASE beh = "absent" -> None
      [] beh = "raises" -> None
      [] beh = "returns_empty" -> Some(<<>>)
      [] beh = "returns_text" -> Some(LlmText)

\* "not report_text"
falsy_text(t) == IsNone(t) \/ Val(t) = <<>>

\* a fallback taken only for None ("if report_text is None")
report_of_fallback_for_none_only(beh, score, st) ==
    IF IsNone(reporter_text(beh)) THEN fallback_report(score, st)
    ELSE Val(reporter_text(beh))

\* the report of the returned dict
report_of(beh, score, st) ==
    IF falsy_text(reporter_text(beh)) THEN fallback_report(score, st)
    ELSE Val(reporter_text(beh))

\* the state after orchestrate's result has been stored into it
orchestrate(st, beh) ==
    LET score == computed_score(st.compile, st.test, st.perf)
    IN  [st EXCEPT !.report = Some(report_of(beh, score, st)),
                   !.final_score = Some(score),
                   !.messages = Some(<<"orchestration complete">>)]

\* The context dict holds the stage dicts of the state themselves, not
\* copies: what a reporter writes into context["compile"], context["static"],
\* context["test"] or context["perf"] is written into the state.
ReporterWrites == {"compile.status", "test.results", "static.issues", "perf.any_timeouts"}

written(st, w) ==
    CASE w = "compile.status" /\ IsSome(st.compile) ->
            [st EXCEPT !.compile = Some([Val(st.compile) EXCEPT !.status = "success"])]
      [] w = "test.results" /\ IsSome(st.test) ->
            [st EXCEPT !.test = Some([Val(st.test) EXCEPT !.results = <<>>])]
      [] w = "static.issues" /\ IsSome(st.static) ->
            [st EXCEPT !.static = Some([Val(st.static) EXCEPT !.issues = <<>>])]
      [] w = "perf.any_timeouts" /\ IsSome(st.perf) ->
            [st EXCEPT !.perf = Some([Val(st.perf) EXCEPT !.any_timeouts = TRUE])]
      [] OTHER -> st

\* the stage outcomes and the score of a state
outcomes_of(st, score) ==
    [compile |-> st.compile, static |-> st.static, test |-> st.test,
     perf |-> st.perf, score |-> score]

-----------------------------------------------------------------------------
(* run_grader_pipeline *)

NewState(code, tests) ==
    [code |-> code, tests |-> tests, compile |-> None, static |-> None,
     test |-> None, perf |-> None, report |-> None, final_score |-> None,
     messages |-> None]

\* placeholder for the state variable before GraderState is constructed
NoState == NewState(<<>>, <<>>)

Init ==
    /\ pc = "start"
    /\ code_text \in {None} \cup { Some(c) : c \in Codes }
    /\ tests_arg \in {None} \cup { Some(l) : l \in TestLists }
    /\ state = NoState
    /\ error = None
    /\ disk = {}
    /\ scratch = None
    /\ results = <<>>
    /\ passed = 0
    /\ idx = 0
    /\ execs = <<>>
    /\ reporter = "not called"
    /\ pre = None
    /\ runs = <<>>
    /\ llm = <<>>

\* state = GraderState(code=code_text, tests=tests or []): a code_text that
\* is not a str fails validation, outside the try block
construct_state ==
    /\ pc = "start"
    /\ IF IsNone(code_text)
       THEN /\ pc' = "raised"
            /\ UNCHANGED state
       ELSE /\ pc' = "compile"
            /\ state' = NewState(Val(code_text),
                                 IF IsNone(tests_arg) THEN <<>> ELSE Val(tests_arg))
    /\ UNCHANGED <<llm, runs, code_text, tests_arg, error, disk, scratch, results, passed,
                   idx, execs, reporter, pre>>

\* the same failure with no try block around the stages
compile_agent_raises_uncaught ==
    /\ pc = "compile"
    /\ pc' = "raised"
    /\ reporter' \in ReporterBehaviours
    /\ UNCHANGED <<llm, runs, code_text, tests_arg, state, error, disk, scratch, results,
                   passed, idx, execs, pre>>

\* compile_agent when tempfile.mkdtemp raises: compile_c_code has no handler
\* around it, the except of run_grader_pipeline returns the partial state
compile_agent_raises ==
    /\ pc = "compile"
    /\ pc' = "returned"
    /\ error' = Some(<<"mkdtemp", "failed">>)
    /\ reporter' \in ReporterBehaviours
    /\ UNCHANGED <<llm, runs, code_text, tests_arg, state, disk, scratch, results, passed,
                   idx, execs, pre>>

compile_agent ==
    /\ pc = "compile"
    /\ \E name \in TmpNames, ev \in CompileEvents :
         LET tmpdir == <<name>>
         IN  /\ mkdtemp_creates(tmpdir, disk)
             /\ state' = [state EXCEPT !.compile =
                    Some(compile_c_code(tmpdir, ev, CompileTimeoutSeconds, disk))]
             /\ disk' = compile_c_code_disk(tmpdir, ev, disk)
             /\ scratch' = Some(tmpdir)
    /\ pc' = "static"
    /\ UNCHANGED <<llm, runs, code_text, tests_arg, error, results, passed, idx, execs,
                   reporter, pre>>

static_step ==
    /\ pc = "static"
    /\ state' = [state EXCEPT !.static = Some(static_agent(state.code))]
    /\ pc' = "test"
    /\ UNCHANGED <<llm, runs, code_text, tests_arg, error, disk, scratch, results, passed,
                   idx, execs, reporter, pre>>

\* test_agent up to the for loop
test_agent_begin ==
    /\ pc = "test"
    /\ IF test_skips(state.compile)
       THEN /\ state' = [state EXCEPT !.test = Some(test_skipped)]
            /\ pc' = "perf"
            /\ UNCHANGED <<results, passed, idx>>
       ELSE /\ results' = <<>>
            /\ passed' = 0
            /\ idx' = 1
            /\ pc' = "test_loop"
            /\ UNCHANGED state
    /\ UNCHANGED <<llm, runs, code_text, tests_arg, error, disk, scratch, execs, reporter, pre>>

\* a list that takes each new outcome at its front
results_prepended(res, outcome) == <<outcome>> \o res

\* results.append(outcome)
results_after(res, outcome) == Append(res, outcome)

\* a for loop that gives up after a run that ended with returncode -1
loop_stops_after_failed_run(exec_res) == exec_res.returncode # Some(-1)

\* does the for loop go on to its next test after this run: it has no
\* break, return or raise in its body
loop_continues(exec_res) == TRUE

\* one iteration of the for loop of test_agent
test_agent_run ==
    /\ pc = "test_loop"
    /\ idx <= Len(state.tests)
    /\ \E ev \in ExecEvents :
         LET t        == state.tests[idx]
             exec_res == run_binary_with_input(Val(state.compile).binary_path,
                            test_parts(t).input_str, TestTimeoutSeconds, ev, disk)
             outcome  == test_outcome(t, exec_res)
         IN  /\ results' = results_after(results, outcome)
             /\ passed' = IF counts_passed(outcome) THEN passed + 1 ELSE passed
             /\ execs' = Append(execs, ev)
             /\ idx' = IF loop_continues(exec_res) THEN idx + 1
                       ELSE Len(state.tests) + 1
    /\ UNCHANGED <<llm, runs, pc, code_text, tests_arg, state, error, disk, scratch,
                   reporter, pre>>

\* test_agent after the for loop
test_agent_end ==
    /\ pc = "test_loop"
    /\ idx > Len(state.tests)
    /\ state' = [state EXCEPT !.test =
                    Some(test_done(results, passed, Len(state.tests)))]
    /\ pc' = "perf"
    /\ UNCHANGED <<llm, runs, code_text, tests_arg, error, disk, scratch, results, passed,
                   idx, execs, reporter, pre>>

performance_step ==
    /\ pc = "perf"
    /\ state' = [state EXCEPT !.perf = Some(performance_agent(state.test))]
    /\ pc' = "orchestrate"
    /\ UNCHANGED <<llm, runs, code_text, tests_arg, error, disk, scratch, results, passed,
                   idx, execs, reporter, pre>>

\* orchestrate with a reporter that only reads the context, and the return
orchestrate_step ==
    /\ pc = "orchestrate"
    /\ \E beh \in ReporterBehaviours :
         /\ state' = orchestrate(state, beh)
         /\ reporter' = beh
    /\ pre' = Some(outcomes_of(state,
                     computed_score(state.compile, state.test, state.perf)))
    /\ pc' = "returned"
    /\ UNCHANGED <<llm, runs, code_text, tests_arg, error, disk, scratch, results, passed,
                   idx, execs>>

\* orchestrate with a reporter that writes into the context it is handed
orchestrate_writing_reporter ==
    /\ pc = "orchestrate"
    /\ \E w \in ReporterWrites, beh \in {"returns_empty", "returns_text"} :
         LET score == computed_score(state.compile, state.test, state.perf)
             st    == written(state, w)
         IN  /\ state' = [st EXCEPT !.report = Some(report_of(beh, score, st)),
                                    !.final_score = Some(score),
                                    !.messages = Some(<<"orchestration complete">>)]
             /\ pre' = Some(outcomes_of(state, score))
             /\ reporter' = "writes"
    /\ pc' = "returned"
    /\ UNCHANGED <<llm, runs, code_text, tests_arg, error, disk, scratch, results, passed,
                   idx, execs>>

Next ==
    \/ construct_state
    \/ compile_agent_raises
    \/ compile_agent
    \/ static_step
    \/ test_agent_begin
    \/ test_agent_run
    \/ test_agent_end
    \/ performance_step
    \/ orchestrate_step

Spec == Init /\ [][Next]_vars

\* the same pipeline, called with a reporter that may write to its argument
WritingNext == Next \/ orchestrate_writing_reporter

WritingSpec == Init /\ [][WritingNext]_vars

-----------------------------------------------------------------------------
(* The scoring part of a run on longer test lists: the runs start where    *)
(* the for loop of test_agent has just finished (or, after a failed        *)
(* compile, where test_agent is about to be called), with the results the  *)
(* loop builds for p passing, w wrong and t timed-out tests.               *)

PassEvent == Exited(<<"b", "\n">>, 0)
WrongEvent == Exited(<<"x">>, 0)
TimeoutEvent == [kind |-> "timeout"]

events_of(p, w, t) ==
    [i \in 1..(p + w + t) |->
        IF i <= p THEN PassEvent ELSE IF i <= p + w THEN WrongEvent ELSE TimeoutEvent]

ScoreInit ==
    \E c \in Codes, name \in TmpNames, ev \in {"gcc_ok", "gcc_error", "gcc_timeout"},
       p \in 0..MaxTotal, w \in 0..MaxTotal, t \in 0..MaxTotal :
        LET tmpdir == <<name>>
            n      == p + w + t
            tl     == [i \in 1..n |-> Line_a_b]
            d      == compile_c_code_disk(tmpdir, ev, {})
            comp   == compile_c_code(tmpdir, ev, CompileTimeoutSeconds, {})
            evs    == events_of(p, w, t)
            res    == [i \in 1..n |->
                         test_outcome(tl[i],
                            run_binary_with_input(comp.binary_path,
                               test_parts(tl[i]).input_str, TestTimeoutSeconds,
                               evs[i], d))]
        IN  /\ n <= MaxTotal
            /\ ev # "gcc_ok" => w = 0 /\ t = 0
            /\ code_text = Some(c)
            /\ tests_arg = Some(tl)
            /\ state = [NewState(c, tl) EXCEPT !.compile = Some(comp),
                                               !.static = Some(static_agent(c))]
            /\ error = None
            /\ disk = d
            /\ scratch = Some(tmpdir)
            /\ pc = IF ev = "gcc_ok" THEN "test_loop" ELSE "test"
            /\ results = IF ev = "gcc_ok" THEN res ELSE <<>>
            /\ passed = IF ev = "gcc_ok" THEN p ELSE 0
            /\ idx = IF ev = "gcc_ok" THEN n + 1 ELSE 0
            /\ execs = IF ev = "gcc_ok" THEN evs ELSE <<>>
            /\ reporter = "not called"
            /\ pre = None
            /\ runs = <<>>
            /\ llm = <<>>

ScoreNext ==
    \/ test_agent_begin
    \/ test_agent_end
    \/ performance_step
    \/ orchestrate_step

ScoreSpec == ScoreInit /\ [][ScoreNext]_vars

-----------------------------------------------------------------------------
(* The test stage on one test line of any shape: the line is put together  *)
(* from up to MaxTokens pieces (a letter, one colon, the delimiter "::",   *)
(* the arrow "->", a blank), the code has compiled, and the for loop of    *)
(* test_agent is about to run the line.                                    *)

Line_a_b_c == <<"a", ":", ":", "b", ":", ":", "c">>   \* "a::b::c"

LineTokens == { <<"a">>, <<":">>, DColon, Arrow, <<" ">> }

RECURSIVE LinesOf(_)
LinesOf(n) ==
    IF n = 0 THEN {<<>>}
    ELSE LET shorter == LinesOf(n - 1)
         IN  shorter \cup { l \o tok : l \in shorter, tok \in LineTokens }

AnyLines == LinesOf(MaxTokens) \cup TestLines \cup {Line_a_b_c}

LineInit ==
    \E t \in AnyLines, name \in TmpNames :
        LET tmpdir == <<name>>
        IN  /\ pc = "test_loop"
            /\ code_text = Some(CleanCode)
            /\ tests_arg = Some(<<t>>)
            /\ state = [NewState(CleanCode, <<t>>) EXCEPT
                          !.compile = Some(compile_c_code(tmpdir, "gcc_ok",
                                              CompileTimeoutSeconds, {})),
                          !.static = Some(static_agent(CleanCode))]
            /\ error = None
            /\ disk = compile_c_code_disk(tmpdir, "gcc_ok", {})
            /\ scratch = Some(tmpdir)
            /\ results = <<>>
            /\ passed = 0
            /\ idx = 1
            /\ execs = <<>>
            /\ reporter = "not called"
            /\ pre = None
            /\ runs = <<>>
            /\ llm = <<>>

LineNext ==
    \/ test_agent_run
    \/ test_agent_end

LineSpec == LineInit /\ [][LineNext]_vars

-----------------------------------------------------------------------------
(* Grading runs hosted at the same time.  Each run is one call of          *)
(* compile_c_code; the runs share nothing but the file system, and their   *)
(* steps (mkdtemp, the write of submission.c, the gcc call) interleave in  *)
(* every order, the orders in which one run ends before the next begins    *)
(* included.                                                               *)

Runs == 1..MaxRuns

\* the names mkdtemp can come up with: one more than there are runs
ConcTmpDirs == { << <<"grader_compile_", k>> >> : k \in 1..(MaxRuns + 1) }

NewRun == [pc |-> "mkdtemp", tmpdir |-> None, wrote |-> {}]

ConcInit ==
    /\ pc = "start"
    /\ code_text = Some(CleanCode)
    /\ tests_arg = None
    /\ state = NoState
    /\ error = None
    /\ disk = {}
    /\ scratch = None
    /\ results = <<>>
    /\ passed = 0
    /\ idx = 0
    /\ execs = <<>>
    /\ reporter = "not called"
    /\ pre = None
    /\ runs = [r \in Runs |-> NewRun]
    /\ llm = <<>>

\* tmpdir = tempfile.mkdtemp(prefix="grader_compile_")
conc_mkdtemp(r) ==
    /\ runs[r].pc = "mkdtemp"
    /\ \E tmpdir \in ConcTmpDirs :
         /\ mkdtemp_creates(tmpdir, disk)
         /\ disk' = disk \cup {tmpdir}
         /\ runs' = [runs EXCEPT ![r] = [pc |-> "write", tmpdir |-> Some(tmpdir),
                                         wrote |-> {}]]
    /\ UNCHANGED <<llm, pc, code_text, tests_arg, state, error, scratch, results,
                   passed, idx, execs, reporter, pre>>

\* with open(src_path, "w") as f: f.write(code_text), which may raise
conc_write_source(r) ==
    /\ runs[r].pc = "write"
    /\ \E ev \in {"write_fails", "written"} :
         LET path == src_path(Val(runs[r].tmpdir))
         IN  IF ev = "write_fails"
             THEN /\ runs' = [runs EXCEPT ![r].pc = "done"]
                  /\ UNCHANGED disk
             ELSE /\ runs' = [runs EXCEPT ![r].pc = "gcc",
                                          ![r].wrote = @ \cup {path}]
                  /\ disk' = disk \cup {path}
    /\ UNCHANGED <<llm, pc, code_text, tests_arg, state, error, scratch, results,
                   passed, idx, execs, reporter, pre>>

\* subprocess.run(["gcc", src_path, "-o", bin_path], ...) and the return
conc_gcc(r) ==
    /\ runs[r].pc = "gcc"
    /\ \E ev \in CompileEvents \ {"write_fails"} :
         LET path == bin_path(Val(runs[r].tmpdir))
         IN  IF ev = "gcc_ok"
             THEN /\ runs' = [runs EXCEPT ![r].pc = "done",
                                          ![r].wrote = @ \cup {path}]
                  /\ disk' = disk \cup {path}
             ELSE /\ runs' = [runs EXCEPT ![r].pc = "done"]
                  /\ UNCHANGED disk
    /\ UNCHANGED <<llm, pc, code_text, tests_arg, state, error, scratch, results,
                   passed, idx, execs, reporter, pre>>

ConcNext ==
    \E r \in Runs : conc_mkdtemp(r) \/ conc_write_source(r) \/ conc_gcc(r)

ConcSpec == ConcInit /\ [][ConcNext]_vars

-----------------------------------------------------------------------------
(* call_gemini of src/llm_agents.py: one call, from _make_model to the     *)
(* return.  A str of a response is a sequence of characters.               *)

\* what a response (an object of the SDK) can hold: a text accessor that
\* gives nothing (or raises), blank text or text, and candidates, each with
\* a finish reason, a text part and safety ratings, or some of them
OkText == <<"o", "k">>
ResponseTexts == {None, Some(<<" ">>), Some(OkText)}

FinishReasons ==
    { None,
      Some(<<"S", "T", "O", "P">>),
      Some(<<"M", "A", "X", "_", "T", "O", "K", "E", "N", "S">>),
      Some(<<"m", "a", "x", "_", "t", "o", "k", "e", "n", "s">>) }

LlmCandidates ==
    [finish_reason : FinishReasons, text : {None, Some(OkText)},
     safety : {None, Some("ratings")}]

Responses ==
    [text : ResponseTexts, candidates : SeqsUpTo(LlmCandidates, MaxCandidates)]

\* str.upper(), on the letters that occur
LowerCase == <<"a", "e", "k", "m", "n", "o", "s", "t", "x">>
UpperCase == <<"A", "E", "K", "M", "N", "O", "S", "T", "X">>
upper(q) ==
    [i \in DOMAIN q |->
        IF \E j \in DOMAIN LowerCase : LowerCase[j] = q[i]
        THEN UpperCase[CHOOSE j \in DOMAIN LowerCase : LowerCase[j] = q[i]]
        ELSE q[i]]

\* "\n".join(parts)
RECURSIVE join_lines(_)
join_lines(parts) ==
    IF parts = <<>> THEN <<>>
    ELSE IF Len(parts) = 1 THEN parts[1]
    ELSE parts[1] \o <<"\n">> \o join_lines(Tail(parts))

\* the first value of a field over the candidates that is not None
RECURSIVE first_set(_, _)
first_set(cands, field) ==
    IF cands = <<>> THEN None
    ELSE IF IsSome(Head(cands)[field]) THEN Head(cands)[field]
    ELSE first_set(Tail(cands), field)

meta_default == [candidates_count |-> 0, finish_reason |-> None, safety |-> None]

\* "if text": a str that is there and not empty
truthy(t) == IsSome(t) /\ Val(t) # <<>>

\* _extract_text_from_response: the pair (text, meta)
extract_text_from_response(response) ==
    IF IsNone(response) THEN [text |-> None, meta |-> meta_default]
    ELSE LET r     == Val(response)
             cands == r.candidates
         IN  IF truthy(r.text)
             THEN [text |-> Some(strip(Val(r.text))),
                   meta |-> [candidates_count |-> Len(cands),
                             finish_reason |-> IF cands # <<>> THEN cands[1].finish_reason
                                               ELSE None,
                             safety |-> IF cands # <<>> THEN cands[1].safety ELSE None]]
             ELSE LET with_text == SelectSeq(cands, LAMBDA c : IsSome(c.text))
                      parts     == [i \in DOMAIN with_text |-> Val(with_text[i].text)]
                  IN  [text |-> IF parts # <<>> THEN Some(strip(join_lines(parts)))
                                ELSE None,
                       meta |-> [candidates_count |-> Len(cands),
                                 finish_reason |-> first_set(cands, "finish_reason"),
                                 safety |-> first_set(cands, "safety")]]

\* the finish reason says the answer was cut off
truncated(finish) ==
    /\ IsSome(finish)
    /\ LET fin_str == upper(Val(finish))
       IN  \/ Contains(<<"M", "A", "X">>, fin_str)
           \/ Contains(<<"T", "O", "K", "E", "N">>, fin_str)
           \/ Contains(<<"T", "R", "U", "N", "C">>, fin_str)

TokenCap == 8192

\* a retry limit that is doubled and not capped
bigger_uncapped(max_output_tokens) == max_output_tokens * 2

\* bigger = min(int(max_output_tokens) * 2, 8192)
bigger(max_output_tokens) == Min({max_output_tokens * 2, TokenCap})

\* "if retry_on_truncate and truncated"
retries(retry_on_truncate, meta) ==
    retry_on_truncate /\ truncated(meta.finish_reason)

\* max_output_tokens of a call site (generate_test_cases), the default,
\* and one whose double is over the cap
TokenLimits == {512, 1500, 5000}

GeminiInit ==
    /\ pc = "start"
    /\ code_text = Some(CleanCode)
    /\ tests_arg = None
    /\ state = NoState
    /\ error = None
    /\ disk = {}
    /\ scratch = None
    /\ results = <<>>
    /\ passed = 0
    /\ idx = 0
    /\ execs = <<>>
    /\ reporter = "not called"
    /\ pre = None
    /\ runs = <<>>
    /\ \E m \in TokenLimits, retry \in BOOLEAN :
         llm = [pc |-> "make_model", max_output_tokens |-> m,
                retry_on_truncate |-> retry, limit |-> m, attempts |-> <<>>,
                calls |-> <<>>, extracted |-> <<>>, result |-> None]

\* model = _make_model(); None without the SDK or when the constructor raises
make_model ==
    /\ llm.pc = "make_model"
    /\ \E model_is_none \in BOOLEAN :
         llm' = IF model_is_none THEN [llm EXCEPT !.pc = "returned", !.result = None]
                ELSE [llm EXCEPT !.pc = "single_generate"]
    /\ UNCHANGED <<pc, code_text, tests_arg, state, error, disk, scratch, results,
                   passed, idx, execs, reporter, pre, runs>>

\* _single_generate, the preferred call of model.generate_content, and the
\* extraction of its response when it returned or raised; a TypeError
\* leads to the other call signature
single_generate_preferred ==
    /\ llm.pc = "single_generate"
    /\ LET called == [llm EXCEPT
                        !.attempts = Append(@, llm.limit),
                        !.calls = Append(@, [max_output_tokens |-> llm.limit,
                                             signature |-> "preferred",
                                             attempt |-> Len(llm.attempts) + 1])]
       IN  \/ llm' = [called EXCEPT !.pc = "fallback"]
           \/ \E response \in {None} \cup { Some(r) : r \in Responses } :
                llm' = [called EXCEPT
                          !.pc = "extracted",
                          !.extracted = Append(@, extract_text_from_response(response))]
    /\ UNCHANGED <<pc, code_text, tests_arg, state, error, disk, scratch, results,
                   passed, idx, execs, reporter, pre, runs>>

\* _single_generate after the TypeError: model.generate_content once more,
\* same token limit, and the extraction of what came of it
single_generate_fallback ==
    /\ llm.pc = "fallback"
    /\ \E response \in {None} \cup { Some(r) : r \in Responses } :
         llm' = [llm EXCEPT
                   !.pc = "extracted",
                   !.calls = Append(@, [max_output_tokens |-> llm.limit,
                                        signature |-> "fallback",
                                        attempt |-> Len(llm.attempts)]),
                   !.extracted = Append(@, extract_text_from_response(response))]
    /\ UNCHANGED <<pc, code_text, tests_arg, state, error, disk, scratch, results,
                   passed, idx, execs, reporter, pre, runs>>

\* call_gemini after the first response: return, or retry
call_gemini_first ==
    /\ llm.pc = "extracted"
    /\ Len(llm.attempts) = 1
    /\ LET text == llm.extracted[1].text
           meta == llm.extracted[1].meta
       IN  llm' = IF truthy(text)
                  THEN [llm EXCEPT !.pc = "returned", !.result = text]
                  ELSE IF meta.candidates_count = 0
                  THEN [llm EXCEPT !.pc = "returned", !.result = None]
                  ELSE IF retries(llm.retry_on_truncate, meta)
                  THEN [llm EXCEPT !.pc = "single_generate",
                                   !.limit = bigger(llm.max_output_tokens)]
                  ELSE [llm EXCEPT !.pc = "returned", !.result = None]
    /\ UNCHANGED <<pc, code_text, tests_arg, state, error, disk, scratch, results,
                   passed, idx, execs, reporter, pre, runs>>

\* call_gemini after the response of the retry: return text
call_gemini_second ==
    /\ llm.pc = "extracted"
    /\ Len(llm.attempts) = 2
    /\ llm' = [llm EXCEPT !.pc = "returned", !.result = llm.extracted[2].text]
    /\ UNCHANGED <<pc, code_text, tests_arg, state, error, disk, scratch, results,
                   passed, idx, execs, reporter, pre, runs>>

GeminiNext ==
    \/ make_model
    \/ single_generate_preferred
    \/ single_generate_fallback
    \/ call_gemini_first
    \/ call_gemini_second

GeminiSpec == GeminiInit /\ [][GeminiNext]_vars

-----------------------------------------------------------------------------
(* Properties *)

Returned == pc = "returned"

CompileSucceeded == IsSome(state.compile) /\ Val(state.compile).status = "success"
CompileFailed    == IsSome(state.compile) /\ Val(state.compile).status # "success"

\* the test outcomes of the record
OutcomesOf(st) == IF IsNone(st.test) THEN <<>> ELSE Val(st.test).results

\* C1: when the compile stage did not end with status success (compiler
\* exit code not zero, compiler timeout, an exception in or before the
\* compiler call), then whatever tests were supplied the returned record has
\* no test outcome, no run of the binary was made (the test stage is
\* skipped), and the average time of the performance summary is absent.
Thm_C1_CompileGatesTests ==
    (Returned /\ ~CompileSucceeded) =>
        /\ execs = <<>>
        /\ OutcomesOf(state) = <<>>
        /\ CompileFailed => /\ IsSome(state.test)
                            /\ Val(state.test).status = "skipped"
                            /\ IsSome(state.perf)
        /\ IsSome(state.perf) => IsNone(Val(state.perf).average_time)

\* a failed compile with two or more tests supplied, returned
Wit_C1_FailedCompileWithTests ==
    /\ Returned
    /\ CompileFailed
    /\ Len(state.tests) >= 2
    /\ IsSome(state.perf)

\* C2: once run_grader_pipeline has returned, the scratch directory that
\* the compile stage created in this run is no longer on disk.
Claim_C2_ScratchRemoved ==
    (Returned /\ IsSome(scratch)) => Val(scratch) \notin disk

\* the test stage is over
TestStageOver == pc \in {"perf", "orchestrate", "returned"} /\ CompileSucceeded

IsTimeoutOutcome(o) ==
    /\ o.meta.returncode = Some(-1)
    /\ Contains(<<"timed", "out">>, o.meta.stderr)
    /\ o.meta.time = Some(TestTimeoutSeconds * 1000)
    /\ o.output = <<>>
    /\ o.pass # Some(TRUE)

\* the judgement of a run that exited, from that run and that test alone
JudgedAlone(o, ev) ==
    /\ o.output = strip(ev.stdout)
    /\ o.pass = IF o.expected = <<>> THEN None ELSE Some(strip(ev.stdout) = o.expected)
    /\ o.meta.returncode = Some(ev.returncode)

\* C3: a test whose run times out gets a timeout outcome; every test after
\* it is still run, and judged from its own run alone; and the test stage
\* ends after at most one bounded run per test: inside the loop the number
\* of runs made is the number of tests done, it never exceeds the number of
\* tests, and the loop can always take its next step.  (The outcomes are
\* judged where the loop builds them and where it has just ended; the
\* record holds those same outcomes from then on.)
Thm_C3_PerTestIsolation ==
    /\ Len(execs) <= Len(state.tests)
    /\ Len(results) = Len(execs)
    /\ pc = "test_loop" =>
         /\ idx = Len(execs) + 1
         /\ idx <= Len(state.tests) + 1
         /\ (ENABLED test_agent_run) \/ (ENABLED test_agent_end)
    /\ pc \in {"test_loop", "perf"} =>
         \A i \in DOMAIN results :
            /\ execs[i].kind = "timeout" => IsTimeoutOutcome(results[i])
            /\ execs[i].kind = "exit" => JudgedAlone(results[i], execs[i])
            /\ results[i].input = test_parts(state.tests[i]).input_str
    /\ TestStageOver =>
         /\ Len(results) = Len(state.tests)
         /\ IsSome(state.test)
         /\ Val(state.test).results = results

\* a timed-out first test followed by a test that was run and passed
Wit_C3_PassAfterTimeout ==
    /\ TestStageOver
    /\ Len(results) >= 2
    /\ execs[1].kind = "timeout"
    /\ IsTimeoutOutcome(results[1])
    /\ results[2].pass = Some(TRUE)

\* C4: whatever the compile status, the test results (any passed out of
\* any total, or tests skipped), the static findings and the performance
\* summary, the final score is between 0 and 100.
Thm_C4_ScoreBounds ==
    IsSome(state.final_score) =>
        /\ 0 <= Val(state.final_score)
        /\ Val(state.final_score) <= 10000

\* the largest score the scorer gives: compiled, all of three or more tests
\* passed, no timeout
Wit_C4_HighestScore ==
    /\ Returned
    /\ Len(state.tests) >= 3
    /\ state.final_score = Some(9525)

\* the number a report line shows, in hundredths
DigitVal(c) == CHOOSE d \in 0..9 : DigitChars[d + 1] = c

RECURSIVE DigitsValue(_)
DigitsValue(q) ==
    IF q = <<>> THEN 0
    ELSE 10 * DigitsValue(SubSeq(q, 1, Len(q) - 1)) + DigitVal(q[Len(q)])

ShownHundredths(chars) ==
    LET dot  == Min({ i \in DOMAIN chars : chars[i] = "." })
        frac == SubSeq(chars, dot + 1, Len(chars))
    IN  100 * DigitsValue(SubSeq(chars, 1, dot - 1))
        + (IF Len(frac) = 1 THEN 10 * DigitsValue(frac) ELSE DigitsValue(frac))

ReportShowsScore(rep, h) ==
    \E i \in DOMAIN rep :
        /\ rep[i] # <<>>
        /\ Head(rep[i]) = "Final score: "
        /\ \E j \in DOMAIN rep[i] : rep[i][j] = "."
        /\ ShownHundredths(Tail(rep[i])) = h

ReporterGivesNoText == reporter \in {"absent", "raises", "returns_empty"}

ReportIsThereWithScore ==
    /\ IsSome(state.report)
    /\ Val(state.report) # <<>>
    /\ IsSome(state.final_score)
    /\ ReportShowsScore(Val(state.report), Val(state.final_score))

Thm_C6_FailedCompileScore ==
    (Returned /\ CompileFailed /\ Len(state.tests) >= 1) =>
        /\ Val(state.compile).status = "error"
        /\ IsNone(error)
        /\ IsSome(state.final_score)
        /\ Val(state.final_score) >= 0
        /\ Val(state.final_score) <= 2500

Wit_C6_FailedCompileScored ==
    /\ Returned
    /\ CompileFailed
    /\ Len(state.tests) >= 1
    /\ state.final_score = Some(0)

\* the terms of the formula as C7 states it
PassedCount == IF IsSome(state.test) /\ IsSome(Val(state.test).passed)
               THEN Val(Val(state.test).passed) ELSE 0
TotalCount  == IF IsSome(state.test) /\ IsSome(Val(state.test).total)
               THEN Val(Val(state.test).total) ELSE 0
IssueCount  == IF IsSome(state.static) THEN Len(Val(state.static).issues) ELSE 0
AverageBelowHalfSecond ==
    /\ IsSome(state.perf)
    /\ IsSome(Val(state.perf).average_time)
    /\ LET avg == Val(Val(state.perf).average_time) IN avg[1] < 500 * avg[2]

\* 100 * (0.25 compileTerm + 0.45 testTerm + 0.15 staticTerm + 0.15 perfTerm),
\* rounded to two decimals, in hundredths
StatedScore ==
    LET fixed == (IF CompileSucceeded THEN 2500 ELSE 0)
                 + (IF 1500 - 75 * IssueCount > 0 THEN 1500 - 75 * IssueCount ELSE 0)
                 + (IF AverageBelowHalfSecond THEN 1500 ELSE 900)
    IN  IF TotalCount > 0
        THEN round_half_even(fixed * TotalCount + 4500 * PassedCount, TotalCount)
        ELSE fixed

\* C7 as stated: the final score is the weighted sum with weights 0.25,
\* 0.45, 0.15, 0.15 of the compile, test, static and performance terms.
Claim_C7_StatedFormula ==
    IsSome(state.final_score) => Val(state.final_score) = StatedScore

\* C7: with a test score (the code compiled and there is at least one test)
\* the final score is round(0.85 * score + 10 * compileTerm + 0.05 * bonus, 2)
\* where bonus is 5.0 unless a test run timed out; without a test score it
\* is 50 for code that compiled and 0 otherwise.  The static issue count
\* is no term of it.
Thm_C7_ScoreFormula ==
    IsSome(state.final_score) =>
        LET score == Val(state.test).score
            bonus == IF Val(state.perf).any_timeouts THEN 0 ELSE 2500
        IN  Val(state.final_score) =
               IF IsSome(score)
               THEN round_half_even(85 * Val(score)
                                    + (IF CompileSucceeded THEN 100000 ELSE 0)
                                    + bonus, 100)
               ELSE IF CompileSucceeded THEN 5000 ELSE 0

\* one of three tests passed, one timed out, static issues found: 38.33
Wit_C7_ThirdPassedWithIssues ==
    /\ Returned
    /\ PassedCount = 1
    /\ TotalCount = 3
    /\ Val(state.perf).any_timeouts
    /\ IssueCount > 0
    /\ state.final_score = Some(3833)

TestStageDone == IsSome(state.test) /\ Val(state.test).status = "done"

\* C8 as stated: the score percent is 100 * passed / total (to the two
\* decimals the record keeps) and 0 for an empty test list.
Claim_C8_ZeroWithoutTests ==
    TestStageDone =>
        Val(state.test).score =
            Some(IF TotalCount > 0
                 THEN round_half_even(10000 * PassedCount, TotalCount) ELSE 0)

\* C8: the score percent is round(100 * passed / total, 2) for a test list
\* that is not empty; for an empty one it is absent, and the final score
\* is then the fallback 50, not a sum with a test term of 0.
Thm_C8_TestScore ==
    TestStageDone =>
        /\ TotalCount = Len(state.tests)
        /\ PassedCount <= TotalCount
        /\ TotalCount > 0 =>
             Val(state.test).score =
                Some(round_half_even(10000 * PassedCount, TotalCount))
        /\ TotalCount = 0 =>
             /\ IsNone(Val(state.test).score)
             /\ IsSome(state.final_score) => state.final_score = Some(5000)

Wit_C8_NoTests ==
    /\ Returned
    /\ TestStageDone
    /\ TotalCount = 0
    /\ state.final_score = Some(5000)

\* C9: run_grader_pipeline raises only when the GraderState could not be
\* constructed; an exception of a stage ends in a returned record that
\* holds the failure: the "error" key for an exception that reached the
\* handler of the pipeline, status error for a failed compile, returncode
\* -1 and a message for a run that raised or timed out, the fallback
\* report for a reporter that raised.
Thm_C9_NoStageExceptionEscapes ==
    /\ pc = "raised" => IsNone(code_text) /\ state = NoState /\ disk = {}
    /\ Returned =>
         /\ IsSome(error) <=> IsNone(state.compile)
         /\ IsNone(error) => IsSome(state.report) /\ IsSome(state.final_score)
         /\ IsSome(state.compile) => Val(state.compile).status \in {"success", "error"}
         /\ \A i \in DOMAIN execs :
              execs[i].kind \in {"exception", "timeout"} =>
                 /\ results[i].meta.returncode = Some(-1)
                 /\ results[i].meta.stderr # <<>>
         /\ (reporter = "raises" /\ IsNone(error)) =>
              Head(Val(state.report)) = <<"## Automated Grading Report (fallback)">>

\* a run of the binary raised and the reporter raised: a record is returned
Wit_C9_StageExceptionsRecorded ==
    /\ Returned
    /\ reporter = "raises"
    /\ \E i \in DOMAIN execs : execs[i].kind = "exception"
    /\ IsSome(state.final_score)

\* C10: the final score and the compile, static, test and perf outcomes of
\* the returned record are those the stages produced, whatever the report
\* generator did.
Claim_C10_ReporterCannotAlter ==
    (Returned /\ IsSome(pre)) =>
        outcomes_of(state, Val(state.final_score)) = Val(pre)

\* the directory a path lies in
dir_of(path) == <<path[1]>>

\* C11: every call of the compile stage has a scratch directory of its own:
\* in every interleaving of the hosted runs no two calls hold the same
\* directory, every path a call writes (submission.c, submission_bin) lies
\* in its own directory, and so no two calls write into one directory.
Thm_C11_ScratchDirsDistinct ==
    \A r1 \in DOMAIN runs :
        /\ IsSome(runs[r1].tmpdir) => Val(runs[r1].tmpdir) \in disk
        /\ \A p \in runs[r1].wrote : dir_of(p) = Val(runs[r1].tmpdir)
        /\ \A r2 \in DOMAIN runs :
              r1 # r2 =>
                 /\ (IsSome(runs[r1].tmpdir) /\ IsSome(runs[r2].tmpdir)) =>
                        runs[r1].tmpdir # runs[r2].tmpdir
                 /\ \A p1 \in runs[r1].wrote, p2 \in runs[r2].wrote :
                        dir_of(p1) # dir_of(p2)

\* two calls in the middle of their work at once: each has made its
\* directory and written its source, and the compiler of each is running
Wit_C11_RunsOverlap ==
    \E r1, r2 \in DOMAIN runs :
        /\ r1 # r2
        /\ runs[r1].pc = "gcc"
        /\ runs[r2].pc = "gcc"
        /\ runs[r1].wrote # {}
        /\ runs[r2].wrote # {}

\* the runs so far that exited, had an expected output to compare with,
\* and printed it (outer whitespace apart)
Successes ==
    { i \in DOMAIN results :
        /\ execs[i].kind = "exit"
        /\ results[i].expected # <<>>
        /\ strip(execs[i].stdout) = results[i].expected }

\* C12: a test that has an expected output (one that is not empty once
\* trimmed) and whose run exited, with whatever exit code, passes exactly
\* when the trimmed stdout of the run equals the trimmed expected output;
\* and passed counts exactly those tests, in the loop and in the record.
Thm_C12_TrimmedComparison ==
    /\ pc \in {"test_loop", "perf"} =>
         /\ \A i \in DOMAIN results :
              /\ results[i].expected = test_parts(state.tests[i]).expected_str
              /\ (execs[i].kind = "exit" /\ results[i].expected # <<>>) =>
                    (results[i].pass = Some(TRUE) <=> i \in Successes)
              /\ results[i].pass = Some(TRUE) => i \in Successes
         /\ passed = Cardinality(Successes)
    /\ TestStageDone => Val(state.test).passed = Some(Cardinality(Successes))

\* a run that printed the expected text followed by a newline passed, one
\* that printed something else did not, and passed is 1
Wit_C12_OnePassedOneFailed ==
    /\ Returned
    /\ TestStageDone
    /\ Len(results) = 2
    /\ execs[1] = Exited(<<"b", "\n">>, 0)
    /\ results[1].pass = Some(TRUE)
    /\ execs[2] = Exited(<<"x">>, 0)
    /\ results[2].pass = Some(FALSE)
    /\ Val(state.test).passed = Some(1)

\* a test line that is input only: no delimiter in it
InputOnly(t) == ~Contains(DColon, t) /\ ~Contains(Arrow, t)

\* C13: a test without expected output whose run exited is a success
\* exactly when the exit code was zero, and is then counted as passed.
Claim_C13_ExitCodeJudged ==
    pc \in {"test_loop", "perf"} =>
        /\ \A i \in DOMAIN results :
              (InputOnly(state.tests[i]) /\ execs[i].kind = "exit") =>
                    results[i].pass = Some(execs[i].returncode = 0)
        /\ passed >= Cardinality({ i \in DOMAIN results :
                        /\ InputOnly(state.tests[i])
                        /\ execs[i].kind = "exit"
                        /\ execs[i].returncode = 0 })

\* the line "5::" and its like: the delimiter, and nothing but whitespace
\* after its first occurrence
EmptyExpected(t) ==
    /\ Contains(DColon, t)
    /\ strip(split1(t, DColon)[2]) = <<>>

\* C14: a test line with the delimiter and an empty expected part is judged
\* as a test that expects empty output: it passes exactly when the trimmed
\* stdout of its run is empty, and is counted then.
Claim_C14_EmptyExpectedJudged ==
    pc \in {"test_loop", "perf"} =>
        \A i \in DOMAIN results :
            (EmptyExpected(state.tests[i]) /\ execs[i].kind = "exit") =>
                results[i].pass = Some(strip(execs[i].stdout) = <<>>)

\* the text the claim gives as the output of a test that timed out
TimeoutMarker == <<"(", "t", "i", "m", "e", "o", "u", "t", ")">>

\* C15: a run that exceeded the timeout is recorded with pass false and
\* the output "(timeout)", with or without an expected output, and what is
\* recorded differs from what is recorded for a run that failed to start.
Claim_C15_TimeoutRecorded ==
    pc \in {"test_loop", "perf"} =>
        \A i \in DOMAIN results :
            execs[i].kind = "timeout" =>
                /\ results[i].pass = Some(FALSE)
                /\ results[i].output = TimeoutMarker
                /\ \A ev \in ExecEvents :
                      ev.kind = "exception" =>
                         results[i] # test_outcome(state.tests[i],
                            run_binary_with_input(Val(state.compile).binary_path,
                               results[i].input, TestTimeoutSeconds, ev, disk))

\* C16: when a run of the test stage timed out or failed to start, the
\* average time of the performance summary is absent.
Claim_C16_AverageUnavailable ==
    (IsSome(state.perf) /\ TestStageDone
       /\ \E i \in DOMAIN execs : execs[i].kind \in {"timeout", "exception"}) =>
        IsNone(Val(state.perf).average_time)

\* C17: a line that contains "::" is cut at the first "::" and nowhere
\* else: what stands before it is the input, all that follows it, later
\* "::" included, is the expected output (each then trimmed, as every
\* input and expected output is).
Thm_C17_SplitAtFirstDelimiter ==
    \A i \in DOMAIN results :
        LET t == state.tests[i]
        IN  Contains(DColon, t) =>
               \E k \in 1..(Len(t) - 1) :
                  /\ SubSeq(t, k, k + 1) = DColon
                  /\ ~Contains(DColon, SubSeq(t, 1, k))
                  /\ results[i].input = strip(SubSeq(t, 1, k - 1))
                  /\ results[i].expected = strip(SubSeq(t, k + 2, Len(t)))

\* the line "a::b::c" was run: input "a", expected "b::c"
Wit_C17_LaterDelimiterKept ==
    /\ Len(results) = 1
    /\ state.tests[1] = Line_a_b_c
    /\ results[1].input = <<"a">>
    /\ results[1].expected = <<"b", ":", ":", "c">>

\* C18 as stated: a line without "::" is the input as a whole, with no
\* expected output, whatever else stands in it.
Claim_C18_NoOtherDelimiter ==
    \A i \in DOMAIN results :
        LET t == state.tests[i]
        IN  ~Contains(DColon, t) =>
               /\ results[i].input = strip(t)
               /\ results[i].expected = <<>>
               /\ results[i].pass = None

\* C18: a line without "::" that contains "->" is cut at the first "->"
\* into input and expected output; a line with neither is the input as a
\* whole (trimmed), with no expected output and no judgement.  A single
\* colon is no delimiter.
Thm_C18_ArrowIsDelimiter ==
    \A i \in DOMAIN results :
        LET t == state.tests[i]
        IN  ~Contains(DColon, t) =>
               IF Contains(Arrow, t)
               THEN \E k \in 1..(Len(t) - 1) :
                       /\ SubSeq(t, k, k + 1) = Arrow
                       /\ ~Contains(Arrow, SubSeq(t, 1, k))
                       /\ results[i].input = strip(SubSeq(t, 1, k - 1))
                       /\ results[i].expected = strip(SubSeq(t, k + 2, Len(t)))
               ELSE /\ results[i].input = strip(t)
                    /\ results[i].expected = <<>>
                    /\ results[i].pass = None

\* the line "a->b" was run and judged against the expected output "b"
Wit_C18_ArrowLineJudged ==
    /\ Len(results) = 1
    /\ state.tests[1] = Line_arrow
    /\ results[1].input = <<"a">>
    /\ results[1].expected = <<"b">>
    /\ results[1].pass = Some(TRUE)

\* a line with nothing but whitespace in it
Blank(t) == strip(t) = <<>>

NonBlankCount == Cardinality({ i \in DOMAIN state.tests : ~Blank(state.tests[i]) })

\* C19: blank lines of the test text are no test cases: no run is made
\* and no outcome recorded for them, and the total the score is divided
\* by counts the other lines only.
Claim_C19_BlankLinesDropped ==
    TestStageDone =>
        /\ Val(state.test).total = Some(NonBlankCount)
        /\ Len(Val(state.test).results) = NonBlankCount
        /\ Len(execs) = NonBlankCount

\* the outcome the i-th test has, given what its run did
OutcomeOfTest(i) ==
    test_outcome(state.tests[i],
        run_binary_with_input(Val(state.compile).binary_path,
            test_parts(state.tests[i]).input_str, TestTimeoutSeconds,
            execs[i], disk))

\* C20: when the test stage has run, the record has one outcome for each
\* line of the test list, and the i-th outcome is that of the i-th line and
\* of the i-th run, whether the runs passed, failed, timed out or did not
\* start; in the loop the outcomes so far are those of the first lines.
Thm_C20_OutcomesInOrder ==
    /\ pc = "test_loop" =>
         /\ Len(results) = idx - 1
         /\ \A i \in DOMAIN results : results[i] = OutcomeOfTest(i)
    /\ TestStageDone =>
         /\ Len(Val(state.test).results) = Len(state.tests)
         /\ Val(state.test).total = Some(Len(state.tests))
         /\ (pc = "perf") =>
               \A i \in DOMAIN state.tests :
                  Val(state.test).results[i] = OutcomeOfTest(i)
         /\ \A i \in DOMAIN state.tests :
               /\ Val(state.test).results[i].input = test_parts(state.tests[i]).input_str
               /\ Val(state.test).results[i].expected = test_parts(state.tests[i]).expected_str

\* a blank line whose run did not start, then the line "a::b" whose run
\* passed: two outcomes, in that order
Wit_C20_MixedOutcomesInOrder ==
    /\ Returned
    /\ TestStageDone
    /\ state.tests = <<Line_blank, Line_a_b>>
    /\ execs[1].kind = "exception"
    /\ Val(state.test).results[1].input = <<>>
    /\ Val(state.test).results[1].meta.stderr = SpawnErrorText
    /\ Val(state.test).results[2].input = <<"a">>
    /\ Val(state.test).results[2].pass = Some(TRUE)

\* the first response gave no text, had a candidate and a finish reason
\* that says it was cut off, and retry_on_truncate is true
FirstAnswerCutOff ==
    /\ Len(llm.extracted) >= 1
    /\ ~truthy(llm.extracted[1].text)
    /\ llm.extracted[1].meta.candidates_count >= 1
    /\ truncated(llm.extracted[1].meta.finish_reason)
    /\ llm.retry_on_truncate

\* min(2 * max_output_tokens, 8192)
RetryLimit ==
    IF 2 * llm.max_output_tokens < 8192 THEN 2 * llm.max_output_tokens ELSE 8192

=============================================================================
